---- MODULE Spec2Model ----
(***************************************************************************)
(* Model of exchanger/feedback.py: FeedbackCreator turns a GradeResult     *)
(* into a Feedback (subject, html body, email, student name).              *)
(*                                                                         *)
(* Conventions of the model                                                *)
(*  - Python str is a TLA+ string; f-strings are concatenations (\o).      *)
(*  - An optional value (None or a value) is a sequence of length 0 or 1:  *)
(*    None is <<>>, a value v is <<v>>.                                    *)
(*  - A float is an exact multiple of 1/Scale points, stored as the        *)
(*    integer number of such units: 99.5 points is 199 when Scale = 2.     *)
(*  - str.format on a template file is the record of the template text and *)
(*    the named arguments substituted into it (the template files are      *)
(*    resources and not part of the source).                               *)
(*  - get_feedback runs as a sequence of steps per caller, so that calls   *)
(*    of several callers can interleave.                                   *)
(***************************************************************************)
EXTENDS Integers, Sequences, FiniteSets, TLC

VARIABLES self, pc, arg, body, subject, content, ret

vars == <<self, pc, arg, body, subject, content, ret>>

(***************************************************************************)
(* Bounds                                                                  *)
(***************************************************************************)
\* units per point: scores are multiples of 1/Scale
Scale == 2
\* longest list of task grades in a GradeResult
MaxTasks == 2
\* number of concurrent callers of get_feedback
NumCallers == 2

Callers == 1..NumCallers

None == <<>>
Some(v) == <<v>>

\* n whole points as a score
Pts(n) == n * Scale

(***************************************************************************)
(* Python builtins used by the code                                        *)
(***************************************************************************)
\* bool(x) of an optional string: None and '' are falsy
Truthy(opt) == opt # None /\ opt[1] # ""

\* str(x) of an optional string, as str.format and f-strings render it
Str(opt) == IF opt = None THEN "None" ELSE opt[1]

\* n/d rounded to the nearest integer, ties to the even one
RoundHalfEven(n, d) ==
    LET q == n \div d
        r == n % d
    IN  IF 2 * r < d THEN q
        ELSE IF 2 * r > d THEN q + 1
        ELSE IF q % 2 = 0 THEN q ELSE q + 1

\* round(x, 0): the result as a number of whole points
Round0(x) == RoundHalfEven(x, Scale)

\* round(x, 1): the result as a number of tenths of a point
Round1(x) == RoundHalfEven(10 * x, Scale)

\* str of the float round(x, 0), e.g. '100.0'
StrRound0(x) == ToString(Round0(x)) \o ".0"

\* str of the float round(x, 1), e.g. '99.5'
StrRound1(x) == ToString(Round1(x) \div 10) \o "." \o ToString(Round1(x) % 10)

\* template.format(**args)
Format(template, args) == [template |-> template, args |-> args]

RECURSIVE SumSeq(_)
\* sum(...) over a list of numbers
SumSeq(s) == IF s = <<>> THEN 0 ELSE Head(s) + SumSeq(Tail(s))

(***************************************************************************)
(* definitions.DATE_FORMAT and datetime.strftime                           *)
(***************************************************************************)
DATE_FORMAT == <<"%Y", "-", "%m", "-", "%d", " ", "%H", ":", "%M">>

Pad2(n) == IF n < 10 THEN "0" \o ToString(n) ELSE ToString(n)

Directive(ts, d) ==
    CASE d = "%Y" -> ToString(ts.year)
      [] d = "%m" -> Pad2(ts.month)
      [] d = "%d" -> Pad2(ts.day)
      [] d = "%H" -> Pad2(ts.hour)
      [] d = "%M" -> Pad2(ts.minute)
      [] OTHER -> d

RECURSIVE strftime(_, _)
strftime(ts, fmt) ==
    IF fmt = <<>> THEN "" ELSE Directive(ts, Head(fmt)) \o strftime(ts, Tail(fmt))

(***************************************************************************)
(* utils.data_models.GradeStatus                                           *)
(***************************************************************************)
ErrorStatuses ==
    { "ERROR_NO_CORRECT_FILES", "ERROR_NOTEBOOK_CORRUPTED",
      "ERROR_LESSON_IS_ABSENT", "ERROR_USERNAME_IS_ABSENT",
      "ERROR_GRADER_FAILED" }

GradeStatus == ErrorStatuses \cup {"SUCCESS"}

\* values of the status field that are none of the six variants
UnknownStatuses == {"SKIPPED"}

(***************************************************************************)
(* FeedbackCreator.__init__                                                *)
(***************************************************************************)
PicKeys ==
    { "python_logo", "check", "xmark",
      "0_20", "21_40", "41_60", "61_80", "81_99", "100",
      "unknown_files", "unknown_content", "unknown_lesson", "unknown_user",
      "grader_failed" }

\* content of a template file of exchanger/resources
_load_template(name) == "<" \o name \o ">"

__init__(course_name, teacher_email, picture_links) ==
    [ _teacher_email |-> teacher_email,
      _course_name   |-> course_name,
      _pics          |-> picture_links,
      _template      |-> _load_template("template.html"),
      _styles        |-> _load_template("styles.css"),
      _error_body    |-> _load_template("error_body.html"),
      _grades_body   |-> _load_template("grades_body.html") ]

\* the picture tables the composer is constructed with: one link per key
PictureLinks(host) == [k \in PicKeys |-> host \o "/" \o k \o ".png"]

Composers ==
    { __init__(cn, "teacher@school.org", PictureLinks(h)) :
        cn \in {"Python", "Algorithms"}, h \in {"https://cdn.example"} }

(***************************************************************************)
(* The methods of FeedbackCreator that build a body and a subject          *)
(***************************************************************************)
\* _get_pic_by_grade with the second test written < instead of <=
_get_pic_by_grade_strict(slf, grade_sum) ==
    IF grade_sum <= Pts(20) THEN slf._pics["0_20"]
    ELSE IF grade_sum < Pts(40) THEN slf._pics["21_40"]
    ELSE IF grade_sum <= Pts(60) THEN slf._pics["41_60"]
    ELSE IF grade_sum <= Pts(80) THEN slf._pics["61_80"]
    ELSE IF grade_sum <= Pts(99) THEN slf._pics["81_99"]
    ELSE slf._pics["100"]

_get_pic_by_grade(slf, grade_sum) ==
    IF grade_sum <= Pts(20) THEN slf._pics["0_20"]
    ELSE IF grade_sum <= Pts(40) THEN slf._pics["21_40"]
    ELSE IF grade_sum <= Pts(60) THEN slf._pics["41_60"]
    ELSE IF grade_sum <= Pts(80) THEN slf._pics["61_80"]
    ELSE IF grade_sum <= Pts(99) THEN slf._pics["81_99"]
    ELSE slf._pics["100"]

EncouragementText ==
    "It seems that something went wrong, and the tasks were not solved. "
    \o "Try again to study the theory and reread task descriptions.<br> "
    \o "We also recommend you use the links to additional materials. "
    \o "Don't be discouraged - everyone makes mistakes. "
    \o "We look forward to getting more letters from you."

NotEnoughText(score, max_score) ==
    "You scored " \o StrRound0(score) \o " out of " \o StrRound0(max_score)
    \o " points, which is not enough for the lesson to be passed. "
    \o "Try again to study the theory and reread task descriptions.<br> "
    \o "We also recommend you use the links to additional materials. "
    \o "Don't be discouraged - everyone makes mistakes. "
    \o "We look forward to getting more letters from you."

PassedText(score, max_score) ==
    "It looks like you have a good understanding of the topic and scored "
    \o StrRound0(score) \o " out of " \o StrRound0(max_score) \o " points. "
    \o "The result is accepted and you can proceed to the next lesson.<br> "
    \o "If you want to bring the result to perfection, "
    \o "find your mistakes and send the solution again. "
    \o "We also recommend you to look at additional materials. "
    \o "Perhaps you will discover something new for yourself."

PerfectText ==
    "Excellent! You have reached the maximum number of points."
    \o "The result is accepted, and you can proceed to the next lesson.<br> "
    \o "If you want to understand the topic even better, "
    \o "we advise you to look at additional materials. "
    \o "Perhaps you will discover something new for yourself."

\* the function ends without a return when no test matches: None
_get_feedback_message(score, max_score) ==
    IF score = 0 THEN Some(EncouragementText)
    ELSE IF score <= Pts(80) THEN Some(NotEnoughText(score, max_score))
    ELSE IF score <= Pts(99) THEN Some(PassedText(score, max_score))
    ELSE IF score = Pts(100) THEN Some(PerfectText)
    ELSE None

\* GradeRow with the icon chosen by the pass mark of 80 instead of max_score
GradeRow_by_pass_mark(slf, index, task) ==
    [ task  |-> ToString(index + 1) \o ". " \o task.name,
      score |-> StrRound1(task.score),
      img   |-> IF task.score <= Pts(80)
                THEN slf._pics["xmark"] ELSE slf._pics["check"] ]

\* one <tr> of the table: the three cells that vary
GradeRow(slf, index, task) ==
    [ task  |-> ToString(index + 1) \o ". " \o task.name,
      score |-> StrRound1(task.score),
      img   |-> IF task.score < task.max_score
                THEN slf._pics["xmark"] ELSE slf._pics["check"] ]

\* the rows in the order of the tasks; enumerate() counts from 0
_get_grade_part(slf, grades) ==
    [i \in 1..Len(grades) |-> GradeRow(slf, i - 1, grades[i])]

\* lines 76-78 with the score appended to the subject
SuccessSubject_with_score(slf, grade_result) ==
    LET timestamp == strftime(grade_result.timestamp, DATE_FORMAT)
    IN  slf._course_name \o " / " \o grade_result.lesson_name
        \o " / " \o timestamp \o " / "
        \o ToString(Len(grade_result.task_grades))

\* lines 76-78
SuccessSubject(slf, grade_result) ==
    LET timestamp == strftime(grade_result.timestamp, DATE_FORMAT)
    IN  slf._course_name \o " / " \o grade_result.lesson_name
        \o " / " \o timestamp

_get_success_feedback(slf, grade_result) ==
    LET subj == SuccessSubject(slf, grade_result)
        score == SumSeq([i \in 1..Len(grade_result.task_grades) |->
                            grade_result.task_grades[i].score])
        max_score == SumSeq([i \in 1..Len(grade_result.task_grades) |->
                                grade_result.task_grades[i].max_score])
        bdy == Format(slf._grades_body,
                 [ first_name  |-> Str(grade_result.first_name),
                   lesson_name |-> grade_result.lesson_name,
                   grades_info |-> _get_grade_part(slf, grade_result.task_grades),
                   image_link  |-> _get_pic_by_grade(slf, score),
                   team_speech |-> Str(_get_feedback_message(score, max_score)),
                   sum_score   |-> StrRound1(score) ])
    IN  <<bdy, subj>>

\* the shape shared by the five error feedbacks
ErrorFeedback(slf, err_text, title, pic) ==
    <<Format(slf._error_body,
             [ err_text      |-> err_text,
               teacher_email |-> slf._teacher_email,
               image_link    |-> slf._pics[pic] ]),
      slf._course_name \o " / " \o title>>

_get_absent_username_feedback(slf) ==
    ErrorFeedback(slf,
        "We have received your letter, but we do not know what to do with it. "
        \o "Your email is not in our database, so we cannot check the work.",
        "Unknown user", "unknown_user")

_get_grader_failed_feedback(slf) ==
    ErrorFeedback(slf,
        "We received your work, but the grading process ended with an error. "
        \o "Probably your code consumes too much RAM, has infinite loops, "
        \o "or contains very deep recursions. Check it and send again :)",
        "Grader failed", "grader_failed")

_get_incorrect_lesson_feedback(slf) ==
    ErrorFeedback(slf,
        "We have received your submission, but the lesson name extracted "
        \o "from the email subject is not correct. Check it and send again :)",
        "Unknown lesson", "unknown_lesson")

_get_no_correct_files_feedback(slf) ==
    ErrorFeedback(slf,
        "We have received your submission, but we have not found any files "
        \o "that are necessary for the lesson specified in the subject. "
        \o "Check the files and send again :)",
        "No correct files", "unknown_files")

_get_notebook_corrupted_feedback(slf) ==
    ErrorFeedback(slf,
        "We have received your submission and found necessary files in the "
        \o "attachment. However, our robots are confused :) Because the "
        \o "content of the files does not match the lesson specified in the "
        \o "subject.",
        "Robots in panic", "unknown_content")

(***************************************************************************)
(* FeedbackCreator.get_feedback                                            *)
(***************************************************************************)
\* BodyAndSubject with the branches of two error statuses exchanged
BodyAndSubject_swapped(slf, grade_result) ==
    IF grade_result.status = "ERROR_NO_CORRECT_FILES"
        THEN Some(_get_no_correct_files_feedback(slf))
    ELSE IF grade_result.status = "ERROR_NOTEBOOK_CORRUPTED"
        THEN Some(_get_notebook_corrupted_feedback(slf))
    ELSE IF grade_result.status = "ERROR_LESSON_IS_ABSENT"
        THEN Some(_get_absent_username_feedback(slf))
    ELSE IF grade_result.status = "ERROR_USERNAME_IS_ABSENT"
        THEN Some(_get_incorrect_lesson_feedback(slf))
    ELSE IF grade_result.status = "ERROR_GRADER_FAILED"
        THEN Some(_get_grader_failed_feedback(slf))
    ELSE IF grade_result.status = "SUCCESS"
        THEN Some(_get_success_feedback(slf, grade_result))
    ELSE None

\* BodyAndSubject with a final else that answers "grader failed"
BodyAndSubject_default(slf, grade_result) ==
    IF grade_result.status = "ERROR_NO_CORRECT_FILES"
        THEN Some(_get_no_correct_files_feedback(slf))
    ELSE IF grade_result.status = "ERROR_NOTEBOOK_CORRUPTED"
        THEN Some(_get_notebook_corrupted_feedback(slf))
    ELSE IF grade_result.status = "ERROR_LESSON_IS_ABSENT"
        THEN Some(_get_incorrect_lesson_feedback(slf))
    ELSE IF grade_result.status = "ERROR_USERNAME_IS_ABSENT"
        THEN Some(_get_absent_username_feedback(slf))
    ELSE IF grade_result.status = "SUCCESS"
        THEN Some(_get_success_feedback(slf, grade_result))
    ELSE Some(_get_grader_failed_feedback(slf))

\* lines 38-56: the body and the subject of the status, None for the raise
BodyAndSubject(slf, grade_result) ==
    IF grade_result.status = "ERROR_NO_CORRECT_FILES"
        THEN Some(_get_no_correct_files_feedback(slf))
    ELSE IF grade_result.status = "ERROR_NOTEBOOK_CORRUPTED"
        THEN Some(_get_notebook_corrupted_feedback(slf))
    ELSE IF grade_result.status = "ERROR_LESSON_IS_ABSENT"
        THEN Some(_get_incorrect_lesson_feedback(slf))
    ELSE IF grade_result.status = "ERROR_USERNAME_IS_ABSENT"
        THEN Some(_get_absent_username_feedback(slf))
    ELSE IF grade_result.status = "ERROR_GRADER_FAILED"
        THEN Some(_get_grader_failed_feedback(slf))
    ELSE IF grade_result.status = "SUCCESS"
        THEN Some(_get_success_feedback(slf, grade_result))
    ELSE None

\* lines 57-59: the body wrapped into the outer template
Content(slf, bdy) ==
    Format(slf._template,
           [ styles      |-> slf._styles,
             body        |-> bdy,
             python_icon |-> slf._pics["python_logo"],
             course_name |-> slf._course_name ])

\* StudentName with the test written `or`, and None rendered by the f-string
StudentName_or(grade_result) ==
    IF Truthy(grade_result.first_name) \/ Truthy(grade_result.last_name)
    THEN Some(Str(grade_result.first_name) \o " " \o Str(grade_result.last_name))
    ELSE None

\* lines 63-66
StudentName(grade_result) ==
    IF Truthy(grade_result.first_name) /\ Truthy(grade_result.last_name)
    THEN Some(grade_result.first_name[1] \o " " \o grade_result.last_name[1])
    ELSE None

\* utils.data_models.Feedback, as lines 67-68 build it
Feedback(subj, html_body, email, student_name) ==
    [ subject |-> subj, html_body |-> html_body,
      email |-> email, student_name |-> student_name ]

\* what one uninterrupted call returns for a known status
get_feedback(slf, grade_result) ==
    LET bs == BodyAndSubject(slf, grade_result)[1]
    IN  Feedback(bs[2], Content(slf, bs[1]), grade_result.email,
                 StudentName(grade_result))

(***************************************************************************)
(* The inputs: GradeResult records                                         *)
(***************************************************************************)
TaskMaxScores == {Pts(50), Pts(100)}

TaskScores == {0, 1} \cup {Pts(p) : p \in {20, 40, 60, 80, 99, 100}}

\* a task grade: the grader gives between 0 and max_score points
Tasks ==
    { t \in [name : {"fizzbuzz"}, score : TaskScores, max_score : TaskMaxScores] :
        t.score <= t.max_score }

TaskLists == UNION {[1..n -> Tasks] : n \in 0..MaxTasks}

Timestamps ==
    { [year |-> 2021, month |-> 3, day |-> 14, hour |-> 9, minute |-> 5],
      [year |-> 2020, month |-> 11, day |-> 2, hour |-> 17, minute |-> 40] }

\* the grade results: only a graded submission (SUCCESS) carries task grades
GradeResults ==
    [ status      : {"SUCCESS"},
      student_id  : {7},
      first_name  : {None, Some(""), Some("Ada")},
      last_name   : {None, Some(""), Some("Lovelace")},
      lesson_name : {"Lesson 3"},
      timestamp   : Timestamps,
      task_grades : TaskLists,
      email       : {"ada@school.org"} ]
    \cup
    [ status      : ErrorStatuses \cup UnknownStatuses,
      student_id  : {7},
      first_name  : {None, Some(""), Some("Ada")},
      last_name   : {None, Some(""), Some("Lovelace")},
      lesson_name : {"Lesson 3"},
      timestamp   : Timestamps,
      task_grades : {<<>>},
      email       : {"ada@school.org"} ]

\* the inputs of the interleaved calls: a few of the grade results
ConcGradeResults ==
    [ status      : {"SUCCESS"},
      student_id  : {7},
      first_name  : {Some(""), Some("Ada")},
      last_name   : {Some("Lovelace")},
      lesson_name : {"Lesson 3"},
      timestamp   : {[year |-> 2021, month |-> 3, day |-> 14, hour |-> 9, minute |-> 5]},
      task_grades : { <<>>,
                      <<[name |-> "fizzbuzz", score |-> Pts(80), max_score |-> Pts(100)]>>,
                      <<[name |-> "fizzbuzz", score |-> Pts(100), max_score |-> Pts(100)]>> },
      email       : {"ada@school.org"} ]
    \cup
    [ status      : {"ERROR_GRADER_FAILED", "ERROR_LESSON_IS_ABSENT"} \cup UnknownStatuses,
      student_id  : {7},
      first_name  : {Some(""), Some("Ada")},
      last_name   : {Some("Lovelace")},
      lesson_name : {"Lesson 3"},
      timestamp   : {[year |-> 2021, month |-> 3, day |-> 14, hour |-> 9, minute |-> 5]},
      task_grades : {<<>>},
      email       : {"ada@school.org"} ]

(***************************************************************************)
(* The state machine                                                       *)
(***************************************************************************)
Init ==
    /\ self \in Composers
    /\ pc = [c \in Callers |-> "idle"]
    /\ arg = [c \in Callers |-> None]
    /\ body = [c \in Callers |-> None]
    /\ subject = [c \in Callers |-> None]
    /\ content = [c \in Callers |-> None]
    /\ ret = [c \in Callers |-> None]

\* caller c enters get_feedback with one of the grade results of `inputs`
Call(c, inputs) ==
    /\ pc[c] = "idle"
    /\ \E grade_result \in inputs :
          arg' = [arg EXCEPT ![c] = Some(grade_result)]
    /\ pc' = [pc EXCEPT ![c] = "dispatch"]
    /\ UNCHANGED <<self, body, subject, content, ret>>

\* lines 38-54: a known status gives the body and the subject
Dispatch(c) ==
    /\ pc[c] = "dispatch"
    /\ BodyAndSubject(self, arg[c][1]) # None
    /\ body' = [body EXCEPT ![c] = Some(BodyAndSubject(self, arg[c][1])[1][1])]
    /\ subject' = [subject EXCEPT ![c] = Some(BodyAndSubject(self, arg[c][1])[1][2])]
    /\ pc' = [pc EXCEPT ![c] = "format"]
    /\ UNCHANGED <<self, arg, content, ret>>

\* lines 55-56: any other status raises ValueError
RaiseValueError(c) ==
    /\ pc[c] = "dispatch"
    /\ BodyAndSubject(self, arg[c][1]) = None
    /\ pc' = [pc EXCEPT ![c] = "raised"]
    /\ UNCHANGED <<self, arg, body, subject, content, ret>>

\* FormatContent that keeps the formatted text in self._template
FormatContent_stored(c) ==
    /\ pc[c] = "format"
    /\ content' = [content EXCEPT ![c] = Some(Content(self, body[c][1]))]
    /\ self' = [self EXCEPT !._template = self._template \o " formatted"]
    /\ pc' = [pc EXCEPT ![c] = "name"]
    /\ UNCHANGED <<arg, body, subject, ret>>

\* lines 57-61
FormatContent(c) ==
    /\ pc[c] = "format"
    /\ content' = [content EXCEPT ![c] = Some(Content(self, body[c][1]))]
    /\ pc' = [pc EXCEPT ![c] = "name"]
    /\ UNCHANGED <<self, arg, body, subject, ret>>

\* lines 63-68
ReturnFeedback(c) ==
    /\ pc[c] = "name"
    /\ ret' = [ret EXCEPT ![c] =
                 Some(Feedback(subject[c][1], content[c][1], arg[c][1].email,
                               StudentName(arg[c][1])))]
    /\ pc' = [pc EXCEPT ![c] = "returned"]
    /\ UNCHANGED <<self, arg, body, subject, content>>

\* the call is over (returned or raised): its frame is dropped and the
\* caller is ready for its next call
Finish(c) ==
    /\ pc[c] \in {"returned", "raised"}
    /\ pc' = [pc EXCEPT ![c] = "idle"]
    /\ arg' = [arg EXCEPT ![c] = None]
    /\ body' = [body EXCEPT ![c] = None]
    /\ subject' = [subject EXCEPT ![c] = None]
    /\ content' = [content EXCEPT ![c] = None]
    /\ ret' = [ret EXCEPT ![c] = None]
    /\ UNCHANGED self

\* the single-threaded use: one caller, one call at a time
Next ==
    \/ Call(1, GradeResults)
    \/ Dispatch(1)
    \/ RaiseValueError(1)
    \/ FormatContent(1)
    \/ ReturnFeedback(1)
    \/ Finish(1)

Spec == Init /\ [][Next]_vars

\* several callers whose calls interleave step by step
NextConc ==
    \E c \in Callers :
        \/ Call(c, ConcGradeResults)
        \/ Dispatch(c)
        \/ RaiseValueError(c)
        \/ FormatContent(c)
        \/ ReturnFeedback(c)
        \/ Finish(c)

SpecConc == Init /\ [][NextConc]_vars

(***************************************************************************)
(* Reading a finished call                                                 *)
(***************************************************************************)
\* caller c holds the Feedback of a call
Returned(c) == pc[c] = "returned"

\* caller c holds the Feedback of a call with status SUCCESS
Success(c) == Returned(c) /\ arg[c][1].status = "SUCCESS"

\* the total score and the total max score of the call's task grades
Total(c) ==
    SumSeq([i \in 1..Len(arg[c][1].task_grades) |-> arg[c][1].task_grades[i].score])

TotalMax(c) ==
    SumSeq([i \in 1..Len(arg[c][1].task_grades) |->
               arg[c][1].task_grades[i].max_score])

\* the body inside the returned html, and what was substituted into it
RetBody(c) == ret[c][1].html_body.args.body

Paragraph(c) == RetBody(c).args.team_speech

\* the key of the picture table whose link the body shows
PicKey(c) == CHOOSE k \in PicKeys : self._pics[k] = RetBody(c).args.image_link

StartsWith(str, prefix) ==
    Len(prefix) <= Len(str) /\ SubSeq(str, 1, Len(prefix)) = prefix

(***************************************************************************)
(* C1: every success result gets exactly one of the four paragraphs,       *)
(* chosen by the total score: 0 -> encouragement, 0 < total <= 80 -> not   *)
(* enough, 80 < total <= 99 -> passed, 100 -> perfect; none is left        *)
(* without a paragraph.                                                    *)
(***************************************************************************)
C1_ParagraphForEveryTotal ==
    \A c \in Callers : Success(c) =>
        /\ Total(c) = 0 => Paragraph(c) = EncouragementText
        /\ (0 < Total(c) /\ Total(c) <= Pts(80))
              => Paragraph(c) = NotEnoughText(Total(c), TotalMax(c))
        /\ (Pts(80) < Total(c) /\ Total(c) <= Pts(99))
              => Paragraph(c) = PassedText(Total(c), TotalMax(c))
        /\ Total(c) = Pts(100) => Paragraph(c) = PerfectText
        /\ Paragraph(c) \in { EncouragementText, PerfectText,
                              NotEnoughText(Total(c), TotalMax(c)),
                              PassedText(Total(c), TotalMax(c)) }

(***************************************************************************)
(* C2: each error status gives the subject '<course> / <its title>' and    *)
(* the error template filled with its own text and its own picture; no two *)
(* error statuses share a title or a picture key.                          *)
(***************************************************************************)
C2_Expected ==
    [ ERROR_NO_CORRECT_FILES |->
        [ title |-> "No correct files", pic |-> "unknown_files",
          text  |-> "We have received your submission, but we have not found any files" ],
      ERROR_NOTEBOOK_CORRUPTED |->
        [ title |-> "Robots in panic", pic |-> "unknown_content",
          text  |-> "We have received your submission and found necessary files" ],
      ERROR_LESSON_IS_ABSENT |->
        [ title |-> "Unknown lesson", pic |-> "unknown_lesson",
          text  |-> "We have received your submission, but the lesson name" ],
      ERROR_USERNAME_IS_ABSENT |->
        [ title |-> "Unknown user", pic |-> "unknown_user",
          text  |-> "We have received your letter" ],
      ERROR_GRADER_FAILED |->
        [ title |-> "Grader failed", pic |-> "grader_failed",
          text  |-> "We received your work" ] ]

C2_ErrorFeedbackPerStatus ==
    /\ \A s1, s2 \in ErrorStatuses : s1 # s2 =>
          /\ C2_Expected[s1].title # C2_Expected[s2].title
          /\ C2_Expected[s1].pic # C2_Expected[s2].pic
          /\ ~StartsWith(C2_Expected[s1].text, C2_Expected[s2].text)
    /\ \A c \in Callers :
          (Returned(c) /\ arg[c][1].status \in ErrorStatuses) =>
             LET e == C2_Expected[arg[c][1].status]
                 f == ret[c][1]
             IN  /\ StartsWith(f.subject, self._course_name)
                 /\ f.subject = self._course_name \o " / " \o e.title
                 /\ RetBody(c).template = self._error_body
                 /\ DOMAIN RetBody(c).args = {"err_text", "teacher_email", "image_link"}
                 /\ StartsWith(RetBody(c).args.err_text, e.text)
                 /\ RetBody(c).args.teacher_email = self._teacher_email
                 /\ PicKey(c) = e.pic

C2_Witness ==
    \E c \in Callers :
        /\ Returned(c)
        /\ arg[c][1].status = "ERROR_LESSON_IS_ABSENT"
        /\ ret[c][1].subject = "Algorithms / Unknown lesson"
        /\ PicKey(c) = "unknown_lesson"

(***************************************************************************)
(* C3: a status that is none of the six variants ends the call in the      *)
(* ValueError: no body, no subject, no content and no Feedback are built.  *)
(***************************************************************************)
C3_UnknownStatusRaises ==
    \A c \in Callers :
        (arg[c] # None /\ arg[c][1].status \notin GradeStatus) =>
            /\ pc[c] \in {"dispatch", "raised"}
            /\ body[c] = None /\ subject[c] = None
            /\ content[c] = None /\ ret[c] = None

C3_Witness ==
    \E c \in Callers :
        pc[c] = "raised" /\ arg[c][1].status = "SKIPPED" /\ ret[c] = None

(***************************************************************************)
(* C4: the picture of a success result is chosen from the total score by   *)
(* six ranges: <= 20, (20, 40], (40, 60], (60, 80], (80, 99], above 99.    *)
(***************************************************************************)
C4_PictureByTotal ==
    \A c \in Callers : Success(c) =>
        /\ Total(c) <= Pts(20) => PicKey(c) = "0_20"
        /\ (Pts(20) < Total(c) /\ Total(c) <= Pts(40)) => PicKey(c) = "21_40"
        /\ (Pts(40) < Total(c) /\ Total(c) <= Pts(60)) => PicKey(c) = "41_60"
        /\ (Pts(60) < Total(c) /\ Total(c) <= Pts(80)) => PicKey(c) = "61_80"
        /\ (Pts(80) < Total(c) /\ Total(c) <= Pts(99)) => PicKey(c) = "81_99"
        /\ Pts(99) < Total(c) => PicKey(c) = "100"
        /\ PicKey(c) \in {"0_20", "21_40", "41_60", "61_80", "81_99", "100"}

C4_Witness ==
    \E c \in Callers :
        /\ Success(c)
        /\ Total(c) = Pts(40)
        /\ Len(arg[c][1].task_grades) = 2
        /\ PicKey(c) = "21_40"

(***************************************************************************)
(* C5: row i of the table shows 'xmark' exactly when task i scored below   *)
(* its own max_score and 'check' otherwise, whatever the total is.         *)
(***************************************************************************)
C5_IconPerTask ==
    \A c \in Callers : Success(c) =>
        LET tasks == arg[c][1].task_grades
            rows  == RetBody(c).args.grades_info
        IN  /\ Len(rows) = Len(tasks)
            /\ \A i \in 1..Len(tasks) :
                  /\ tasks[i].score < tasks[i].max_score
                        => rows[i].img = self._pics["xmark"]
                  /\ ~(tasks[i].score < tasks[i].max_score)
                        => rows[i].img = self._pics["check"]

\* a passed lesson (total above 80) with one failed and one solved task
C5_Witness ==
    \E c \in Callers :
        /\ Success(c)
        /\ Total(c) = Pts(100)
        /\ Len(arg[c][1].task_grades) = 2
        /\ RetBody(c).args.grades_info[1].img = self._pics["xmark"]
        /\ RetBody(c).args.grades_info[2].img = self._pics["check"]

(***************************************************************************)
(* C6: the Feedback of any of the six statuses has a student name exactly  *)
(* when first and last name are both present and non-empty, and it is then *)
(* first name, one space, last name.                                       *)
(***************************************************************************)
C6_DisplayName ==
    \A c \in Callers : Returned(c) =>
        LET first == arg[c][1].first_name
            last  == arg[c][1].last_name
            both  == /\ first # None /\ first # Some("")
                     /\ last # None /\ last # Some("")
        IN  /\ both <=> ret[c][1].student_name # None
            /\ both => ret[c][1].student_name = Some(first[1] \o " " \o last[1])

C6_Witness ==
    \E c \in Callers :
        /\ Returned(c)
        /\ arg[c][1].status = "ERROR_USERNAME_IS_ABSENT"
        /\ arg[c][1].first_name = Some("Ada")
        /\ arg[c][1].last_name = None
        /\ ret[c][1].student_name = None

(***************************************************************************)
(* C7: no step of get_feedback changes the composer, and every call        *)
(* returns what an uninterrupted call on the composer as constructed       *)
(* returns for its input, whatever the other callers do meanwhile.         *)
(***************************************************************************)
C7_ComposerUnchanged ==
    [][ /\ self' = self
        /\ self' \in Composers
        /\ \A c \in Callers :
              (pc[c] = "name" /\ pc'[c] = "returned")
                 => ret'[c] = Some(get_feedback(self', arg'[c][1])) ]_vars

\* one caller returns while another one is in the middle of a different call
C7_Witness ==
    \E c1, c2 \in Callers :
        /\ c1 # c2
        /\ pc[c1] = "returned" /\ pc[c2] = "name"
        /\ arg[c1] # arg[c2]
        /\ ret[c1] = Some(get_feedback(self, arg[c1][1]))

(***************************************************************************)
(* C8: the subject of a success result is the course name, ' / ', the      *)
(* lesson name, ' / ', the formatted timestamp, whatever the task grades.  *)
(***************************************************************************)
C8_SuccessSubject ==
    \A c \in Callers : Success(c) =>
        ret[c][1].subject =
            self._course_name \o " / " \o arg[c][1].lesson_name \o " / "
            \o strftime(arg[c][1].timestamp, DATE_FORMAT)

C8_Witness ==
    \E c \in Callers :
        /\ Success(c)
        /\ Len(arg[c][1].task_grades) = 2
        /\ ret[c][1].subject = "Python / Lesson 3 / 2021-03-14 09:05"

(***************************************************************************)
(* C9: picture and paragraph agree: the picture is '100' exactly when the  *)
(* paragraph is the perfect one, and '81_99' exactly when it is the passed *)
(* one.                                                                    *)
(***************************************************************************)
C9_PictureAgreesWithParagraph ==
    \A c \in Callers : Success(c) =>
        /\ PicKey(c) = "100" <=> Paragraph(c) = PerfectText
        /\ PicKey(c) = "81_99"
              <=> Paragraph(c) = PassedText(Total(c), TotalMax(c))

(***************************************************************************)
(* C10: the perfect paragraph is selected only when the total score equals *)
(* the total max score.                                                    *)
(***************************************************************************)
C10_PerfectOnlyAtMax ==
    \A c \in Callers :
        (Success(c) /\ Paragraph(c) = PerfectText) => Total(c) = TotalMax(c)

====
